---- MODULE Spec2Model ----
(***************************************************************************)
(* Model of serverless-template-function-calls (src/lib/index.js).         *)
(*                                                                         *)
(* A JavaScript string is a sequence of one-character strings.  A template *)
(* node is a record [t, v]:                                                *)
(*   t = "str"   v = the characters of the string                          *)
(*   t = "map"   v = the own properties in insertion order, each [k, v]    *)
(*   t = "seq"   v = the elements of the array                             *)
(*   t = "undef" v = << >>            (the value undefined)                *)
(*   t = "num"   v = the decimal digits of the number                      *)
(* A position is a sequence of property names (strings).                   *)
(***************************************************************************)
EXTENDS Integers, Sequences, FiniteSets, TLC

VARIABLES
    configInput,  \* custom.templateFunctionCalls, the settings the template gives
    template,     \* serverless.service, the template the plugin rewrites
    rootsTree,    \* processTemplate's rootsTree: the configured roots
    aliased,      \* the roots whose value in rootsTree is the template's object
    functions,    \* the registry loadFunctions returns
    config,       \* the configuration the run uses (getConfig's, once it ran)
    stack,        \* the activations of inplaceFormatField, innermost last
    status,       \* "idle", "running", "done", or "error" once an error is thrown
    thrown,       \* the Error processTemplate threw
    console,      \* the errors throwError printed
    calls,        \* history: every call of a loaded function, in order
    rootsAtStart, \* history: rootsTree as the run started
    nextFid,      \* history: the number of the next activation
    given,        \* the arguments of a function of the plugin applied on its own
    result        \* what that function returned, once it was applied

vars == <<configInput, template, rootsTree, aliased, functions, config, stack, status,
          thrown, console, calls, rootsAtStart, nextFid, given, result>>

\* ------------------------------------------------------------------ bounds
\* most properties a generated mapping of the input template holds
MaxKeys == 2
\* most modules formatModules is given
MaxModules == 2
\* most characters of a string decodeFunctionString is given
MaxText == 5
\* most characters of an argument content written character by character
MaxSource == 5
\* most literals of an argument content written from its arguments
MaxLiterals == 2
\* most activations of inplaceFormatField the call stack of the engine holds
MaxCallStack == 8

\* ------------------------------------------------------------ node values
Str(chars) == [t |-> "str", v |-> chars]
Map(pairs) == [t |-> "map", v |-> pairs]
Arr(elems) == [t |-> "seq", v |-> elems]
Undefined == [t |-> "undef", v |-> << >>]
Num(digits) == [t |-> "num", v |-> digits]
Pair(key, val) == [k |-> key, v |-> val]

\* the decimal digits, for array indices as property names
Digits == <<"0", "1", "2", "3", "4", "5", "6", "7", "8", "9">>

\* property name of array index i (0-based)
IndexKey(i) == <<Digits[i + 1]>>

\* typeof val === "object" && val !== null
isObject(val) == val.t \in {"map", "seq"}

\* Object.keys(val): own property names, in order
ObjectKeys(val) ==
    IF val.t = "map" THEN [i \in 1..Len(val.v) |-> val.v[i].k]
    ELSE IF val.t = "seq" THEN [i \in 1..Len(val.v) |-> IndexKey(i - 1)]
    ELSE << >>

\* node[prop]: undefined when node has no such property
GetProp(node, prop) ==
    IF node.t = "map" /\ \E i \in 1..Len(node.v) : node.v[i].k = prop
    THEN node.v[CHOOSE i \in 1..Len(node.v) : node.v[i].k = prop].v
    ELSE IF node.t = "seq" /\ \E i \in 1..Len(node.v) : IndexKey(i - 1) = prop
    THEN node.v[CHOOSE i \in 1..Len(node.v) : IndexKey(i - 1) = prop]
    ELSE Undefined

\* node[prop] = val on an object that owns prop (the only writes the plugin makes)
SetProp(node, prop, val) ==
    IF node.t = "map"
    THEN Map([i \in 1..Len(node.v) |->
                IF node.v[i].k = prop THEN Pair(prop, val) ELSE node.v[i]])
    ELSE IF node.t = "seq"
    THEN Arr([i \in 1..Len(node.v) |->
                IF IndexKey(i - 1) = prop THEN val ELSE node.v[i]])
    ELSE node

RECURSIVE applyPosition(_, _)
applyPosition(object, position) ==
    IF position = << >> THEN object
    ELSE applyPosition(GetProp(object, Head(position)), Tail(position))

\* the tree after `applyPosition(tree, front(position))[last(position)] = val`
RECURSIVE WriteAt(_, _, _)
WriteAt(tree, position, val) ==
    IF position = << >> THEN val
    ELSE SetProp(tree, Head(position),
                 WriteAt(GetProp(tree, Head(position)), Tail(position), val))

\* deepCopy: new arrays and objects holding copies, everything else as it is
RECURSIVE deepCopy(_)
deepCopy(val) ==
    IF val.t = "seq" THEN Arr([i \in 1..Len(val.v) |-> deepCopy(val.v[i])])
    ELSE IF val.t = "map"
    THEN Map([i \in 1..Len(val.v) |-> Pair(val.v[i].k, deepCopy(val.v[i].v))])
    ELSE val

\* ----------------------------------------------------------------- strings
Whitespace == {" ", "\t", "\n"}
LineTerminators == {"\n"}

RECURSIVE TrimLeft(_)
TrimLeft(s) ==
    IF s # << >> /\ Head(s) \in Whitespace THEN TrimLeft(Tail(s)) ELSE s

RECURSIVE TrimRight(_)
TrimRight(s) ==
    IF s # << >> /\ s[Len(s)] \in Whitespace
    THEN TrimRight(SubSeq(s, 1, Len(s) - 1)) ELSE s

\* String.prototype.trim
Trim(s) == TrimRight(TrimLeft(s))

\* String.prototype.substr(from) and substr(0, n), 0-based
SubstrFrom(s, from) == SubSeq(s, from + 1, Len(s))
SubstrTo(s, n) == SubSeq(s, 1, IF n < Len(s) THEN n ELSE Len(s))

\* index of the first "(" of s, 0 when there is none
FirstParen(s) ==
    IF \E i \in 1..Len(s) : s[i] = "("
    THEN CHOOSE i \in 1..Len(s) : s[i] = "(" /\ \A j \in 1..(i - 1) : s[j] # "("
    ELSE 0

\* the value `undefined` of decodeFunctionString and decodeFunctionArgumentString
None == [ok |-> FALSE]

\* functionStringRegex /^([^(]*)\((.*)\)$/ : the name runs to the first "(",
\* the string ends with ")", and "." matches no line terminator
functionStringRegex(s) ==
    LET p == FirstParen(s) IN
    IF p > 0 /\ Len(s) > p /\ s[Len(s)] = ")"
       /\ \A i \in (p + 1)..(Len(s) - 1) : s[i] \notin LineTerminators
    THEN [ok |-> TRUE,
          functionName |-> SubSeq(s, 1, p - 1),
          functionArgumentContent |-> SubSeq(s, p + 1, Len(s) - 1)]
    ELSE None

decodeFunctionString(functionString, cfg) ==
    IF SubstrTo(functionString, Len(cfg.functionPrefix)) # cfg.functionPrefix
    THEN None
    ELSE functionStringRegex(SubstrFrom(functionString, Len(cfg.functionPrefix)))

\* faulty variant: the backslash is added too
EscapedCharacterKept(s, i) ==
    IF i + 1 <= Len(s) THEN <<s[i], s[i + 1]>> ELSE <<s[i]>>

\* what `currArgument += argumentContent[i]` adds after the backslash at i:
\* the next character, or the text of `undefined` past the end
EscapedCharacter(s, i) ==
    IF i + 1 <= Len(s) THEN <<s[i + 1]>>
    ELSE <<"u", "n", "d", "e", "f", "i", "n", "e", "d">>

\* decodeFunctionArgumentString's loop from index i (1-based) in state
\* (currArgument, afterComma); inArg says currArgument is not undefined
RECURSIVE ArgumentLoop(_, _, _, _, _, _)
ArgumentLoop(s, i, args, inArg, currArgument, afterComma) ==
    IF i > Len(s) THEN [ok |-> TRUE, args |-> args]
    ELSE LET next == s[i] IN
    IF ~inArg /\ afterComma
    THEN IF next = "\""
         THEN ArgumentLoop(s, i + 1, args, TRUE, << >>, afterComma)
         ELSE IF next \notin Whitespace THEN None
         ELSE ArgumentLoop(s, i + 1, args, inArg, currArgument, afterComma)
    ELSE IF inArg /\ afterComma
    THEN IF next = "\\"
         THEN ArgumentLoop(s, i + 2, args, TRUE,
                           currArgument \o EscapedCharacter(s, i), afterComma)
         ELSE IF next = "\""
         THEN ArgumentLoop(s, i + 1, Append(args, currArgument), FALSE, << >>, FALSE)
         ELSE ArgumentLoop(s, i + 1, args, TRUE, Append(currArgument, next), afterComma)
    ELSE IF ~inArg /\ ~afterComma
    THEN IF next = ","
         THEN ArgumentLoop(s, i + 1, args, inArg, currArgument, TRUE)
         ELSE IF next \notin Whitespace THEN None
         ELSE ArgumentLoop(s, i + 1, args, inArg, currArgument, afterComma)
    ELSE None

\* faulty variant: malformed content yields the empty argument list
decodeFunctionArgumentStringLenient(argumentContent) ==
    LET r == ArgumentLoop(Trim(argumentContent), 1, << >>, FALSE, << >>, TRUE)
    IN IF r.ok THEN r ELSE [ok |-> TRUE, args |-> << >>]

\* [ok |-> TRUE, args |-> the decoded arguments] or None when malformed
decodeFunctionArgumentString(argumentContent) ==
    ArgumentLoop(Trim(argumentContent), 1, << >>, FALSE, << >>, TRUE)

\* ------------------------------------------------------------ JSON.stringify
RECURSIVE Flatten(_)
Flatten(seqs) == IF seqs = << >> THEN << >> ELSE Head(seqs) \o Flatten(Tail(seqs))

RECURSIVE JoinComma(_)
JoinComma(seqs) ==
    IF seqs = << >> THEN << >>
    ELSE IF Len(seqs) = 1 THEN seqs[1]
    ELSE seqs[1] \o <<",">> \o JoinComma(Tail(seqs))

\* a string as a JSON string literal
JSONQuote(chars) ==
    <<"\"">> \o Flatten([i \in 1..Len(chars) |->
        IF chars[i] = "\"" THEN <<"\\", "\"">>
        ELSE IF chars[i] = "\\" THEN <<"\\", "\\">>
        ELSE IF chars[i] = "\n" THEN <<"\\", "n">>
        ELSE IF chars[i] = "\t" THEN <<"\\", "t">>
        ELSE <<chars[i]>>]) \o <<"\"">>

\* JSON.stringify of a value that is an array element or a property value:
\* undefined is null in an array and its property is left out of an object
RECURSIVE JSONValue(_)
JSONValue(val) ==
    IF val.t = "str" THEN JSONQuote(val.v)
    ELSE IF val.t = "seq"
    THEN <<"[">> \o JoinComma([i \in 1..Len(val.v) |->
             IF val.v[i].t = "undef" THEN <<"n", "u", "l", "l">>
             ELSE JSONValue(val.v[i])]) \o <<"]">>
    ELSE IF val.t = "map"
    THEN LET kept == SelectSeq(val.v, LAMBDA p : p.v.t # "undef") IN
         <<"{">> \o JoinComma([i \in 1..Len(kept) |->
             JSONQuote(kept[i].k) \o <<":">> \o JSONValue(kept[i].v)]) \o <<"}">>
    ELSE <<"n", "u", "l", "l">>

\* JSON.stringify(functionArguments)
JSONStringify(functionArguments) == JSONValue(Arr(functionArguments))

\* ------------------------------------------------------------------ errors
\* a message is the concatenation of its pieces: literal text of the source
\* (lit) and text computed at run time (txt, a string of the model)
Lit(text) == [lit |-> text, txt |-> << >>]
Txt(chars) == [lit |-> "", txt |-> chars]

\* new Error(message): no cause is attached
NewError(message) == [message |-> message, cause |-> Undefined]

\* throwError(msg, err): the Error it throws and what it prints first
throwError(msg, err) ==
    [error |-> NewError(<<Lit("Template Function Calls Error: ")>> \o msg),
     printed |-> IF err = Undefined THEN << >> ELSE <<err>>]

\* ---------------------------------------------------------------- context
\* __createAncestry: element j of the result is [key, value, parent, child],
\* parent and child being indices into the result (0 for undefined).  The
\* loop never reassigns `parent`, which stays the first element.
RECURSIVE AncestryLoop(_, _, _)
AncestryLoop(elements, parent, rest) ==
    IF rest = << >> THEN elements
    ELSE LET childKey == Head(rest)
             element == [key |-> Str(childKey),
                         value |-> GetProp(elements[parent].value, childKey),
                         parent |-> parent,
                         child |-> 0]
             linked == [elements EXCEPT ![parent].child = Len(elements) + 1]
         IN AncestryLoop(Append(linked, element), parent, Tail(rest))

createAncestry(tpl, position) ==
    AncestryLoop(<<[key |-> Undefined, value |-> tpl, parent |-> 0, child |-> 0]>>,
                 1, position)

\* new ServerlessTemplateContext(template, position)
ServerlessTemplateContext(tpl, position) ==
    LET copy == deepCopy(tpl) IN
    [template |-> copy, position |-> position,
     ancestry |-> createAncestry(copy, position)]

getAncestry(ctx) == ctx.ancestry
getAncestryFunction(ctx) == ctx.ancestry[Len(ctx.ancestry)]
getTemplate(ctx) == ctx.template
getRoot(ctx) == GetProp(ctx.template, ctx.position[1])

\* ------------------------------------------------------- strings of the inputs
nHello == <<"h", "e", "l", "l", "o">>
nList == <<"l", "i", "s", "t">>
nCopy == <<"c", "o", "p", "y">>
nChain == <<"c", "h", "a", "i", "n">>
nObj == <<"o", "b", "j">>
nBoom == <<"b", "o", "o", "m">>
nLoop == <<"l", "o", "o", "p">>
nToString == <<"t", "o", "S", "t", "r", "i", "n", "g">>
sHi == <<"h", "i">>
sObjectObject == <<"[", "o", "b", "j", "e", "c", "t", " ", "O", "b", "j", "e", "c", "t", "]">>
xHello == <<"+", "h", "e", "l", "l", "o", "(", ")">>
xList == <<"+", "l", "i", "s", "t", "(", "\"", "a", "\"", ",", " ", "\"", "b", "\"", ")">>
xChain == <<"+", "c", "h", "a", "i", "n", "(", ")">>
xObj == <<"+", "o", "b", "j", "(", ")">>
xBoom == <<"+", "b", "o", "o", "m", "(", ")">>
xLoop == <<"+", "l", "o", "o", "p", "(", ")">>
xNope == <<"+", "n", "o", "p", "e", "(", ")">>
xMalformed == <<"+", "l", "i", "s", "t", "(", "\"", "a", "\"", " ", ",", " ", "b", ")">>
xUnquoted == <<"+", "l", "i", "s", "t", "(", "b", ")">>
xNopeUnquoted == <<"+", "n", "o", "p", "e", "(", "b", ")">>
xPlain == <<"x">>
xToString == <<"+", "t", "o", "S", "t", "r", "i", "n", "g", "(", ")">>
xEmptyName == <<"+", "(", ")">>
kPlain == <<"k">>
kOther == <<"j">>
kInner == <<"n">>
kDeep == <<"d">>
kCopy == <<"+", "c", "o", "p", "y", "(", ".", ".", ".", ")">>
kList == <<"+", "l", "i", "s", "t", "(", ")">>
kNope == <<"+", "n", "o", "p", "e", "(", ")">>
rCustom == <<"c", "u", "s", "t", "o", "m">>
rLayers == <<"l", "a", "y", "e", "r", "s">>
rOther == <<"o", "t", "h", "e", "r">>
pPlus == <<"+">>
mFns == <<"f", "n", "s", ".", "j", "s">>
mNone == <<"n", "o", "n", "e", ".", "j", "s">>

\* --------------------------------------------------------------- functions
\* what a property read on the plain object `functions` finds on
\* Object.prototype when the object has no own property of that name
ObjectPrototype == (nToString :> "Object.prototype.toString")

\* functions[functionName]; "undefined" when there is no such property
LookupFunction(fns, functionName) ==
    IF functionName \in DOMAIN fns THEN fns[functionName]
    ELSE IF functionName \in DOMAIN ObjectPrototype THEN ObjectPrototype[functionName]
    ELSE "undefined"

\* a function a module exports; `instance` names the function
Fun(instance) == [t |-> "fun", v |-> <<instance>>]

\* index of the last `ch` of s, 0 when there is none
LastIndex(s, ch) ==
    IF \E i \in 1..Len(s) : s[i] = ch
    THEN CHOOSE i \in 1..Len(s) : s[i] = ch /\ \A j \in (i + 1)..Len(s) : s[j] # ch
    ELSE 0

\* functionName.match(/([^.]*)$/)[1]: what follows the last "."
shortFunctionName(functionName) ==
    SubSeq(functionName, LastIndex(functionName, ".") + 1, Len(functionName))

\* the properties `pairs` of an object after `object[key] = val`: an own
\* property keeps its place, a new one is the last
DefineProp(pairs, key, val) ==
    IF \E i \in 1..Len(pairs) : pairs[i].k = key
    THEN [i \in 1..Len(pairs) |-> IF pairs[i].k = key THEN Pair(key, val) ELSE pairs[i]]
    ELSE Append(pairs, Pair(key, val))

\* the object with the properties `pairs` as the registry the run reads
Registry(pairs) ==
    [name \in {pairs[i].k : i \in 1..Len(pairs)} |->
        pairs[CHOOSE i \in 1..Len(pairs) : pairs[i].k = name].v]

\* takeFunctions(prefix, container): the assignments `functions[prefix] =
\* container` it makes, in order
RECURSIVE takeFunctions(_, _)
takeFunctions(prefix, container) ==
    IF isObject(container)
    THEN LET keys == ObjectKeys(container) IN
         Flatten([i \in 1..Len(keys) |->
                    takeFunctions(prefix \o <<".">> \o keys[i],
                                  GetProp(container, keys[i]))])
    ELSE IF container.t = "fun" THEN <<Pair(prefix, container.v[1])>>
    ELSE << >>

\* the assignments made for all modules, in the order of Object.keys(modules)
TakenFunctions(modules) ==
    Flatten([m \in 1..Len(modules.v) |->
               takeFunctions(modules.v[m].k, modules.v[m].v)])

RECURSIVE DefineAll(_, _)
DefineAll(pairs, assignments) ==
    IF assignments = << >> THEN pairs
    ELSE DefineAll(DefineProp(pairs, Head(assignments).k, Head(assignments).v),
                   Tail(assignments))

\* the loop that provides the short names, over the names Object.keys gave
\* before it started
RECURSIVE AliasLoop(_, _)
AliasLoop(pairs, names) ==
    IF names = << >> THEN pairs
    ELSE LET functionName == Head(names)
             short == shortFunctionName(functionName)
         IN AliasLoop(IF LookupFunction(Registry(pairs), short) = "undefined"
                      THEN DefineProp(pairs, short,
                                      LookupFunction(Registry(pairs), functionName))
                      ELSE pairs,
                      Tail(names))

\* formatModules(modules): the registry, modules being the object loadModules
\* returns
formatModules(modules) ==
    LET qualified == DefineAll(<< >>, TakenFunctions(modules))
    IN Registry(AliasLoop(qualified, [i \in 1..Len(qualified) |-> qualified[i].k]))

\* The module file of the inputs, fns.js, exports
\*   hello: () => "hi"                    list: (...a) => a.map(copy)
\*   copy:  (x) => copy(x)                chain: () => "+hello()"
\*   obj:   () => ({ n: "+hello()" })     boom: () => { throw new Error("boom") }
\*   loop:  () => ({ n: "+loop()" })
\* (copy is a structural copy, so no node of the tree is shared between two
\* places and a write through one path is seen through that path alone)
ModuleFiles ==
    (mFns :> Map(<<Pair(nHello, Fun("hello")), Pair(nList, Fun("list")),
                   Pair(nCopy, Fun("copy")), Pair(nChain, Fun("chain")),
                   Pair(nObj, Fun("obj")), Pair(nBoom, Fun("boom")),
                   Pair(nLoop, Fun("loop"))>>))

\* path.basename(modulePath, path.extname(modulePath))
moduleFilename(modulePath) ==
    LET base == SubSeq(modulePath, LastIndex(modulePath, "/") + 1, Len(modulePath))
        dot == LastIndex(base, ".")
    IN IF dot > 1 THEN SubSeq(base, 1, dot - 1) ELSE base

\* loadModules: [ok, modules] or, for a path with no module file, the error
RECURSIVE LoadLoop(_, _)
LoadLoop(pairs, modulePaths) ==
    IF modulePaths = << >>
    THEN [ok |-> TRUE, modules |-> Map(pairs), error |-> Undefined, printed |-> << >>]
    ELSE LET modulePath == Head(modulePaths)
             failed == throwError(<<Lit("module \""), Txt(modulePath),
                                    Lit("\" not found")>>, Undefined)
         IN IF modulePath \notin DOMAIN ModuleFiles
            THEN [ok |-> FALSE, modules |-> Map(pairs),
                  error |-> failed.error, printed |-> failed.printed]
            ELSE LoadLoop(DefineProp(pairs, moduleFilename(modulePath),
                                     ModuleFiles[modulePath]),
                          Tail(modulePaths))

loadModules(modulePaths) == LoadLoop(<< >>, modulePaths)

\* loadFunctions(config): [ok, functions] or the error loadModules throws
loadFunctions(cfg) ==
    LET loaded == loadModules(cfg.modules) IN
    [ok |-> loaded.ok,
     functions |-> IF loaded.ok THEN formatModules(loaded.modules) ELSE << >>,
     error |-> loaded.error, printed |-> loaded.printed]

\* functionInstance.bind({serverlessContext: ctx})(...functionArguments):
\* [threw, value, error]
Invoke(functionInstance, functionArguments, ctx) ==
    LET returns(val) == [threw |-> FALSE, value |-> val, error |-> Undefined] IN
    CASE functionInstance = "hello" -> returns(Str(sHi))
      [] functionInstance = "list" ->
            returns(Arr([i \in 1..Len(functionArguments) |->
                            deepCopy(functionArguments[i])]))
      [] functionInstance = "copy" ->
            returns(IF functionArguments = << >> THEN Undefined
                    ELSE deepCopy(functionArguments[1]))
      [] functionInstance = "chain" -> returns(Str(xHello))
      [] functionInstance = "obj" -> returns(Map(<<Pair(kInner, Str(xHello))>>))
      [] functionInstance = "loop" -> returns(Map(<<Pair(kInner, Str(xLoop))>>))
      [] functionInstance = "Object.prototype.toString" -> returns(Str(sObjectObject))
      [] OTHER -> [threw |-> TRUE, value |-> Undefined,
                   error |-> NewError(<<Lit("boom")>>)]

\* executeFunction: [ctx, invoked, fn, threw, value, error, printed]; when threw,
\* error is the Error thrown to the caller and printed what the console got
executeFunction(functionName, functionArguments, tpl, position, fns) ==
    LET functionInstance == LookupFunction(fns, functionName)
        ctx == ServerlessTemplateContext(tpl, position)
        r == Invoke(functionInstance, functionArguments, ctx)
        notFound == throwError(<<Lit("function \""), Txt(functionName),
                                 Lit("\" was not found")>>, Undefined)
        failed == throwError(<<Lit("function call to \""), Txt(functionName),
                               Lit("\" with the argument ..."),
                               Txt(JSONStringify(functionArguments)),
                               Lit(" threw an error")>>, r.error)
    IN IF functionInstance = "undefined"
       THEN [ctx |-> ctx, invoked |-> FALSE, fn |-> functionInstance, threw |-> TRUE,
             value |-> Undefined, error |-> notFound.error, printed |-> notFound.printed,
             original |-> Undefined]
       ELSE IF r.threw
       THEN [ctx |-> ctx, invoked |-> TRUE, fn |-> functionInstance, threw |-> TRUE,
             value |-> Undefined, error |-> failed.error, printed |-> failed.printed,
             original |-> r.error]
       ELSE [ctx |-> ctx, invoked |-> TRUE, fn |-> functionInstance, threw |-> FALSE,
             value |-> r.value, error |-> Undefined, printed |-> << >>,
             original |-> Undefined]

\* ------------------------------------------------------------------ config
rResources == <<"r", "e", "s", "o", "u", "r", "c", "e", "s">>
rFunctions == <<"f", "u", "n", "c", "t", "i", "o", "n", "s">>
rService == <<"s", "e", "r", "v", "i", "c", "e">>
rProvider == <<"p", "r", "o", "v", "i", "d", "e", "r">>
rPlugins == <<"p", "l", "u", "g", "i", "n", "s">>
rOutputs == <<"o", "u", "t", "p", "u", "t", "s">>

\* the default settings as the run uses them: the prefix's characters, the
\* module paths, the property names of the roots
getDefaultConfig ==
    [modules |-> << >>, functionPrefix |-> pPlus,
     roots |-> <<rResources, rFunctions, rCustom, rLayers, rService, rProvider,
                 rPlugins, rOutputs>>]

\* the same settings as values of the template
DefaultSettings ==
    [modules |-> Arr([i \in 1..Len(getDefaultConfig.modules) |->
                        Str(getDefaultConfig.modules[i])]),
     functionPrefix |-> Str(getDefaultConfig.functionPrefix),
     roots |-> Arr([i \in 1..Len(getDefaultConfig.roots) |->
                      Str(getDefaultConfig.roots[i])])]

\* Array.isArray(val) && val.every(module => typeof module === "string")
StringArray(val) == val.t = "seq" /\ \A i \in 1..Len(val.v) : val.v[i].t = "str"

\* validateConfig: the message, "" for undefined.  The third test asks `every`
\* of modules once more, not of roots.
validateConfig(cfg) ==
    IF cfg.functionPrefix.t # "str" THEN "functionPrefix has to be a string"
    ELSE IF ~(cfg.modules.t = "seq") \/ ~StringArray(cfg.modules)
    THEN "modules has to be a string array"
    ELSE IF ~(cfg.roots.t = "seq") \/ ~StringArray(cfg.modules)
    THEN "roots has to be a string array"
    ELSE ""

\* the property name a value is converted to in `rootsTree[root]`
PropertyKey(val) ==
    IF val.t \in {"str", "num"} THEN val.v
    ELSE <<"u", "n", "d", "e", "f", "i", "n", "e", "d">>

\* custom.templateFunctionCalls of the inputs.  The well-formed one names the
\* module file and the roots to process (one the template has and one it
\* lacks).  The template values of the model leave the property itself out
\* of `custom`.
ConfigInput ==
    [modules |-> Arr(<<Str(mFns)>>), roots |-> Arr(<<Str(rCustom), Str(rLayers)>>)]

\* each of these gives one setting a value of another shape, or names a
\* module file that does not exist
OtherConfigInputs ==
    {[modules |-> Arr(<<Str(mFns)>>), roots |-> Arr(<<Str(rCustom), Num(<<"5">>)>>)],
     [modules |-> Arr(<<Str(mFns)>>), roots |-> Str(rCustom)],
     [functionPrefix |-> Num(<<"5">>)],
     [modules |-> Str(mFns)],
     [modules |-> Arr(<<Str(mFns), Num(<<"5">>)>>)],
     [modules |-> Arr(<<Str(mFns), Str(mNone)>>)]}

\* the default values overwritten by the ones the template gives
EffectiveSettings(input) ==
    [key \in DOMAIN DefaultSettings |->
        IF key \in DOMAIN input THEN input[key] ELSE DefaultSettings[key]]

\* getConfig: the effective settings, validated: [ok, config] or
\* [ok, error, printed] when throwError is called
getConfig(input) ==
    LET merged == EffectiveSettings(input)
        validationErrorMsg == validateConfig(merged)
        failed == throwError(<<Lit(validationErrorMsg)>>, Undefined)
    IN IF validationErrorMsg # ""
       THEN [ok |-> FALSE, config |-> getDefaultConfig,
             error |-> failed.error, printed |-> failed.printed]
       ELSE [ok |-> TRUE,
             config |-> [modules |-> [i \in 1..Len(merged.modules.v) |->
                                        merged.modules.v[i].v],
                         functionPrefix |-> merged.functionPrefix.v,
                         roots |-> [i \in 1..Len(merged.roots.v) |->
                                      PropertyKey(merged.roots.v[i])]],
             error |-> Undefined, printed |-> << >>]

\* ------------------------------------------------------------------ inputs
\* values of a property that is the only one of its mapping
Values ==
    {Str(xHello), Str(xList), Str(xChain), Str(xObj), Str(xBoom), Str(xNope),
     Str(xLoop),
     Str(xMalformed), Str(xUnquoted), Str(xNopeUnquoted),
     Str(xPlain), Str(xToString), Str(xEmptyName),
     Map(<<Pair(kCopy, Str(xHello))>>),
     Map(<<Pair(kInner, Str(xList)), Pair(kList, Str(xPlain))>>),
     Map(<<Pair(kNope, Str(xPlain))>>),
     Map(<<Pair(kInner, Map(<<Pair(kDeep, Str(xHello))>>))>>),
     Map(<<Pair(kInner, Str(xChain))>>),
     Arr(<<Str(xHello), Str(xPlain)>>)}

\* values of the properties of a mapping that has several
SiblingValues ==
    {Str(xHello), Str(xList), Str(xBoom), Str(xPlain), Str(xObj), Str(xChain),
     Str(xMalformed), Map(<<Pair(kCopy, Str(xHello))>>)}

Keys == {kPlain, kOther, kCopy, kList}

Distinct(pairs) ==
    \A i, j \in 1..Len(pairs) : i # j => pairs[i].k # pairs[j].k

\* the mappings of one property
SingleMaps == {Map(<<Pair(key, val)>>) : key \in Keys, val \in Values}

\* the mappings `custom` is drawn from
CustomMaps ==
    SingleMaps
    \cup UNION {{Map(pairs) : pairs \in
                    {ps \in [1..n -> [k : Keys, v : SiblingValues]] : Distinct(ps)}}
                : n \in 2..MaxKeys}

\* serverless.service: the root `custom`, a property outside the roots that
\* holds a key and a string of the form of a function call, and no `layers`
TemplateOf(c) ==
    Map(<<Pair(rCustom, c), Pair(rOther, Map(<<Pair(kCopy, Str(xHello))>>))>>)

Templates == {TemplateOf(c) : c \in CustomMaps \cup {Str(xHello)}}

\* the templates the other settings are combined with
SmallTemplates == {TemplateOf(c) : c \in SingleMaps}

\* ------------------------------------------------------------------- state
NoInfo == [has |-> FALSE, isKeyFunction |-> FALSE, returnValue |-> Undefined]

\* an activation of inplaceFormatField at `position` on tree `tree`:
\* keys is Object.keys(element) (empty when element is no object), i the index
\* of the child the callback of `some` is at, pc where that callback stands
NewFrame(fid, tree, position, rerun) ==
    LET element == applyPosition(tree, position) IN
    [fid |-> fid, position |-> position,
     keys |-> IF isObject(element) THEN ObjectKeys(element) ELSE << >>,
     i |-> 1, pc |-> "loop", rerun |-> rerun,
     valCalled |-> FALSE, valFuncReturn |-> Undefined, info |-> NoInfo]

Top == stack[Len(stack)]
Below == SubSeq(stack, 1, Len(stack) - 1)
childPosition == Append(Top.position, Top.keys[Top.i])

\* the callback of `some` returns false: on to the next child, with the locals
\* of processTemplateKeyValue gone
Advance(frame) ==
    [frame EXCEPT !.pc = "loop", !.i = frame.i + 1, !.valCalled = FALSE,
                  !.valFuncReturn = Undefined, !.info = NoInfo]

\* faulty variant: the callback returns false after the rerun
SkipFurtherChildsNot(frame) == Advance(frame)

\* the callback returns true after the rerun: `some` stops, no child is left
SkipFurtherChilds(frame) == [frame EXCEPT !.pc = "ret"]

\* faulty variant: only the pair's value is replaced
ParentWritePair(tree, position, childKey, val) ==
    WriteAt(tree, Append(position, childKey), val)

\* rootsTree after `parent[key] = val` in the activation at `position`
ParentWrite(tree, position, childKey, val) == WriteAt(tree, position, val)

\* faulty variant: the write is left out
ElementWriteNone(tree, position, childKey, val) == tree

\* rootsTree after `element[childKey] = val` in the activation at `position`
ElementWrite(tree, position, childKey, val) ==
    WriteAt(tree, Append(position, childKey), val)

\* faulty variant: the caller's activation catches the exception and goes on
UnwindOne(stk) == SubSeq(stk, 1, Len(stk) - 1)

\* an exception no activation catches leaves them all
Unwind(stk) == << >>

\* no function is applied on its own
NoCall == [op |-> "none"]
NoResult == [set |-> FALSE]

\* the state of the plugin before a run
Constructed ==
    /\ rootsTree = Undefined
    /\ aliased = {}
    /\ functions = << >>
    /\ config = getDefaultConfig
    /\ stack = << >>
    /\ status = "idle"
    /\ thrown = Undefined
    /\ console = << >>
    /\ calls = << >>
    /\ rootsAtStart = Undefined
    /\ nextFid = 1

Init ==
    /\ \/ configInput = ConfigInput /\ template \in Templates
       \/ configInput \in OtherConfigInputs /\ template \in SmallTemplates
    /\ Constructed
    /\ given = NoCall
    /\ result = NoResult

\* faulty variant: every property of the template is taken for a root
TraversedRootsEvery(cfg, tpl) == ObjectKeys(tpl)

\* the roots rootsTree is given: config.roots
TraversedRoots(cfg, tpl) == cfg.roots

\* the run ends with `error` thrown to the caller of processTemplate
Throw(r) ==
    /\ status' = "error"
    /\ thrown' = r.error
    /\ console' = console \o r.printed
    /\ stack' = Unwind(stack)

\* the RangeError of the runtime when a call finds the call stack full
StackOverflow ==
    [error |-> NewError(<<Lit("Maximum call stack size exceeded")>>),
     printed |-> << >>]

\* the call inplaceFormatField(...) made by an activation: `frame` is
\* entered above `below`, or the call stack is full and the run ends
Call(below, frame) ==
    IF Len(stack) >= MaxCallStack
    THEN /\ Throw(StackOverflow)
         /\ UNCHANGED nextFid
    ELSE /\ stack' = Append(below, frame)
         /\ nextFid' = nextFid + 1
         /\ UNCHANGED <<status, thrown, console>>

\* faulty variant: the rerun after a key's call starts at the parent
KeyRerunParent(frame) == SubSeq(frame.position, 1, Len(frame.position) - 1)

\* the position the rerun after a key's call is given: position.slice(0)
KeyRerun(frame) == frame.position

\* processTemplate up to its call of inplaceFormatField(rootsTree, [], ...),
\* or to the error getConfig throws
ProcessTemplate ==
    /\ status = "idle"
    /\ LET got == getConfig(configInput)
           loaded == loadFunctions(got.config)
           roots == TraversedRoots(got.config, template)
           tree == Map([r \in 1..Len(roots) |->
                          Pair(roots[r], GetProp(template, roots[r]))])
       IN IF ~got.ok
          THEN /\ Throw(got)
               /\ UNCHANGED <<rootsTree, rootsAtStart, aliased, functions, config,
                              nextFid>>
          ELSE IF ~loaded.ok
          THEN /\ Throw(loaded)
               /\ config' = got.config
               /\ UNCHANGED <<rootsTree, rootsAtStart, aliased, functions, nextFid>>
          ELSE /\ config' = got.config
               /\ rootsTree' = tree
               /\ rootsAtStart' = tree
               /\ aliased' = {roots[r] : r \in
                                {q \in 1..Len(roots) :
                                    isObject(GetProp(template, roots[q]))}}
               /\ stack' = <<NewFrame(nextFid, tree, << >>, "none")>>
               /\ functions' = loaded.functions
               /\ nextFid' = nextFid + 1
               /\ status' = "running"
               /\ UNCHANGED <<thrown, console>>
    /\ UNCHANGED <<given, result, configInput, template, calls>>

\* the callback of `some` starts on the next child: the recursive call
Recurse ==
    /\ stack # << >>
    /\ Top.pc = "loop"
    /\ Top.i <= Len(Top.keys)
    /\ Call(Append(Below, [Top EXCEPT !.pc = "pair"]),
            NewFrame(nextFid, rootsTree, childPosition, "none"))
    /\ UNCHANGED <<given, result, configInput, template, rootsTree, aliased,
                   functions, config, calls, rootsAtStart>>

\* inplaceFormatField returns: no child is left or the callback returned true
Return ==
    /\ stack # << >>
    /\ \/ Top.pc = "loop" /\ Top.i > Len(Top.keys)
       \/ Top.pc = "ret"
    /\ stack' = Below
    /\ status' = IF Below = << >> THEN "done" ELSE status
    /\ UNCHANGED <<given, result, configInput, template, rootsTree, aliased,
                   functions, config, thrown, console, calls, rootsAtStart,
                   nextFid>>

\* at the top level (position.length = 0) the pair is not processed
SkipRootPair ==
    /\ stack # << >>
    /\ Top.pc = "pair"
    /\ Len(Top.position) = 0
    /\ stack' = Append(Below, Advance(Top))
    /\ UNCHANGED <<given, result, configInput, template, rootsTree, aliased,
                   functions, config, status, thrown, console, calls,
                   rootsAtStart, nextFid>>

CallRecord(kind, functionName, functionArguments, r) ==
    [fid |-> Top.fid, i |-> Top.i, kind |-> kind, position |-> childPosition,
     name |-> functionName, args |-> functionArguments, fn |-> r.fn, ctx |-> r.ctx,
     threw |-> r.threw, value |-> r.value, original |-> r.original]

\* what executeFunction does to the state: the call is made (if the function
\* was found) and either it returned, and the frame goes on with the returned
\* value (valFuncReturn of a value's call at line 395, the result of a key's
\* call at lines 400-405), or the run ends with the error
Returned(kind, val) ==
    IF kind = "value"
    THEN [Top EXCEPT !.pc = "key", !.valCalled = TRUE, !.valFuncReturn = val]
    ELSE [Top EXCEPT !.pc = "subst",
                     !.info = [has |-> TRUE, isKeyFunction |-> TRUE,
                               returnValue |-> val]]

Execute(kind, functionName, functionArguments) ==
    LET r == executeFunction(functionName, functionArguments, rootsTree,
                             childPosition, functions)
    IN /\ calls' = IF r.invoked
                   THEN Append(calls, CallRecord(kind, functionName, functionArguments, r))
                   ELSE calls
       /\ IF r.threw
          THEN Throw(r)
          ELSE /\ stack' = Append(Below, Returned(kind, r.value))
               /\ UNCHANGED <<status, thrown, console>>

\* processTemplateKeyValue, the value: lines 377-395
ProcessValue ==
    /\ stack # << >>
    /\ Top.pc = "pair"
    /\ Len(Top.position) > 0
    /\ LET value == applyPosition(rootsTree, childPosition)
           valAsFunction == IF value.t = "str"
                            THEN decodeFunctionString(value.v, config) ELSE None
           args == decodeFunctionArgumentString(valAsFunction.functionArgumentContent)
       IN IF ~valAsFunction.ok
          THEN /\ stack' = Append(Below, [Top EXCEPT !.pc = "key", !.valCalled = FALSE])
               /\ UNCHANGED <<status, thrown, console, calls>>
          ELSE IF args.ok
          THEN Execute("value", valAsFunction.functionName,
                       [j \in 1..Len(args.args) |-> Str(args.args[j])])
          ELSE /\ Throw(throwError(<<Lit("arguments of "), Txt(value.v),
                                     Lit(" were malformed")>>, Undefined))
               /\ UNCHANGED calls
    /\ UNCHANGED <<given, result, configInput, template, rootsTree, aliased,
                   functions, config, rootsAtStart, nextFid>>

\* faulty variant: the key's function is always given the stored value
KeyArgumentsStored(frame, value) == <<value>>

\* the arguments of the key's function: the value function's return when the
\* value decoded too, the stored value otherwise
KeyArguments(frame, value) ==
    IF frame.valCalled THEN <<frame.valFuncReturn>> ELSE <<value>>

\* processTemplateKeyValue, the key and the result: lines 397-412
ProcessKey ==
    /\ stack # << >>
    /\ Top.pc = "key"
    /\ LET key == Top.keys[Top.i]
           value == applyPosition(rootsTree, childPosition)
           keyAsFunction == decodeFunctionString(key, config)
           args == KeyArguments(Top, value)
       IN IF keyAsFunction.ok
          THEN Execute("key", keyAsFunction.functionName, args)
          ELSE /\ stack' = Append(Below,
                     [Top EXCEPT !.pc = "subst",
                                 !.info = IF Top.valCalled
                                          THEN [has |-> TRUE, isKeyFunction |-> FALSE,
                                                returnValue |-> Top.valFuncReturn]
                                          ELSE NoInfo])
               /\ UNCHANGED <<status, thrown, console, calls>>
    /\ UNCHANGED <<given, result, configInput, template, rootsTree, aliased,
                   functions, config, rootsAtStart, nextFid>>

\* the write `target[...] = val` at `position` of rootsTree.  The value of a
\* root is the object the template holds too, until rootsTree's property is
\* given another value: a write below such a root is a write to the template
WriteTemplate(position, val) ==
    IF Len(position) >= 2 /\ position[1] \in aliased
    THEN WriteAt(template, position, val) ELSE template

\* inplaceFormatField after processTemplateKeyValue: lines 436-447
Substitute ==
    /\ stack # << >>
    /\ Top.pc = "subst"
    /\ IF Top.info.has /\ Top.info.isKeyFunction
       THEN \* parent[key] = info.returnValue; rerun; return true
            LET tree == ParentWrite(rootsTree, Top.position, Top.keys[Top.i],
                                    Top.info.returnValue) IN
            /\ rootsTree' = tree
            /\ template' = WriteTemplate(Top.position, Top.info.returnValue)
            /\ aliased' = IF Len(Top.position) = 1
                          THEN aliased \ {Top.position[1]} ELSE aliased
            /\ Call(Append(Below, SkipFurtherChilds(Top)),
                    NewFrame(nextFid, tree, KeyRerun(Top), "key"))
       ELSE IF Top.info.has
       THEN \* element[childKey] = info.returnValue; rerun
            LET tree == ElementWrite(rootsTree, Top.position, Top.keys[Top.i],
                                     Top.info.returnValue) IN
            /\ rootsTree' = tree
            /\ template' = WriteTemplate(childPosition, Top.info.returnValue)
            /\ aliased' = aliased
            /\ Call(Append(Below, Advance(Top)),
                    NewFrame(nextFid, tree, childPosition, "value"))
       ELSE /\ stack' = Append(Below, Advance(Top))
            /\ UNCHANGED <<template, rootsTree, aliased, nextFid, status, thrown,
                           console>>
    /\ UNCHANGED <<given, result, configInput, functions, config, calls,
                   rootsAtStart>>

Next ==
    \/ ProcessTemplate
    \/ Recurse
    \/ Return
    \/ SkipRootPair
    \/ ProcessValue
    \/ ProcessKey
    \/ Substitute

Spec == Init /\ [][Next]_vars

\* the steps of inplaceFormatField(rootsTree, [], ...) and of the calls it makes
Traverse ==
    \/ Recurse
    \/ Return
    \/ SkipRootPair
    \/ ProcessValue
    \/ ProcessKey
    \/ Substitute

\* a step of the traversal is possible: an activation is on the call stack
\* (each of its points has a step, whatever the tree holds)
TraverseEnabled == status = "running"

\* weak fairness of Traverse, written out with TraverseEnabled for its
\* enabledness: the traversal does not stop while it can go on
TraverseFair == []<>(~TraverseEnabled) \/ []<><<Traverse>>_vars

\* values of the properties of a mapping that has several, for the runs
\* whose end is checked: a function that returns its own expression is one
LiveSiblingValues ==
    {Str(xHello), Str(xPlain), Str(xLoop), Str(xObj),
     Map(<<Pair(kCopy, Str(xHello))>>)}

LiveKeys == {kPlain, kOther, kCopy}

LiveMaps ==
    SingleMaps
    \cup UNION {{Map(pairs) : pairs \in
                    {ps \in [1..n -> [k : LiveKeys, v : LiveSiblingValues]] :
                        Distinct(ps)}}
                : n \in 2..MaxKeys}

LiveTemplates == {TemplateOf(c) : c \in LiveMaps}

InitLive ==
    /\ \/ configInput = ConfigInput /\ template \in LiveTemplates
       \/ configInput \in OtherConfigInputs /\ template \in SmallTemplates
    /\ Constructed
    /\ given = NoCall
    /\ result = NoResult

\* the traversal processTemplate started goes on: every call is synchronous
\* and runs to its return or to an exception (when the hook calls
\* processTemplate is the host's matter)
SpecLive == InitLive /\ [][Next]_vars /\ TraverseFair

\* =================================================================== claims
\* ------------------------------------------- the functions on their own
\* the functions of the modules formatModules is given, by module and by
\* place in the module
Instances == <<<<"F11", "F12">>, <<"F21", "F22">>, <<"F31", "F32">>>>
ModuleNames == {<<"a">>, <<"b">>, <<"f">>}
ExportKeys == {<<"f">>, nToString}

\* what a module exports under one key: a function, or an object holding one
ExportedUnder(kind, instance) ==
    IF kind = "function" THEN Fun(instance)
    ELSE Map(<<Pair(<<"f">>, Fun(instance))>>)

\* the exports of module m: a function, or an object of one or two properties
ModuleExports(m) ==
    {Fun(Instances[m][1])}
    \cup {Map(<<Pair(key, ExportedUnder(kind, Instances[m][1]))>>) :
             key \in ExportKeys, kind \in {"function", "object"}}
    \cup {Map(<<Pair(ks[1], ExportedUnder(kinds[1], Instances[m][1])),
                 Pair(ks[2], ExportedUnder(kinds[2], Instances[m][2]))>>) :
             ks \in {q \in ExportKeys \X ExportKeys : q[1] # q[2]},
             kinds \in {"function", "object"} \X {"function", "object"}}

\* the objects of n modules loadModules can return
RECURSIVE ModulesOf(_)
ModulesOf(n) ==
    IF n = 0 THEN {<< >>}
    ELSE UNION {{Append(pairs, Pair(name, exports)) :
                    name \in ModuleNames \ {pairs[i].k : i \in 1..Len(pairs)},
                    exports \in ModuleExports(n)} :
                pairs \in ModulesOf(n - 1)}

FormatModulesInputs ==
    {[op |-> "formatModules", modules |-> Map(pairs)] :
        pairs \in UNION {ModulesOf(n) : n \in 1..MaxModules}}

\* the strings decodeFunctionString is given, and the prefixes
TextAlphabet == {"+", "f", "(", ")", " ", "\n"}
Texts == UNION {[1..n -> TextAlphabet] : n \in 0..MaxText}
Prefixes == {<< >>, pPlus}

DecodeInputs ==
    {[op |-> "decodeFunctionString", text |-> text, prefix |-> prefix] :
        text \in Texts, prefix \in Prefixes}

\* argument contents character by character
SourceAlphabet == {"\"", "\\", ",", " ", "b"}
Sources == UNION {[1..n -> SourceAlphabet] : n \in 0..MaxSource}

\* argument contents written from the arguments they stand for: each
\* argument between quotes, `"` and `\` after a backslash (every character,
\* when `all`), whitespace around the quotes (when `padded`), commas between
Arguments ==
    {<< >>, <<"b">>, <<"\"">>, <<"\\">>, <<",">>, <<"\\", "\"">>}

Literal(argument, all, padded) ==
    (IF padded THEN <<" ">> ELSE << >>)
    \o <<"\"">>
    \o Flatten([i \in 1..Len(argument) |->
                  IF all \/ argument[i] \in {"\"", "\\"}
                  THEN <<"\\", argument[i]>> ELSE <<argument[i]>>])
    \o <<"\"">>
    \o (IF padded THEN <<"\n">> ELSE << >>)

WrittenSources ==
    UNION {{[arguments |-> [i \in 1..n |-> choice[i].argument],
             source |-> JoinComma([i \in 1..n |->
                            Literal(choice[i].argument, choice[i].all,
                                    choice[i].padded)])] :
              choice \in [1..n -> [argument : Arguments, all : BOOLEAN,
                                    padded : BOOLEAN]]}
           : n \in 0..MaxLiterals}
    \cup {[arguments |-> << >>, source |-> <<" ", "\n">>]}

ArgumentInputs ==
    {[op |-> "decodeFunctionArgumentString", source |-> source,
      written |-> FALSE, arguments |-> << >>] : source \in Sources}
    \cup {[op |-> "decodeFunctionArgumentString", source |-> w.source,
            written |-> TRUE, arguments |-> w.arguments] : w \in WrittenSources}

InitPure ==
    /\ given \in FormatModulesInputs \cup DecodeInputs \cup ArgumentInputs
    /\ result = NoResult
    /\ configInput = << >>
    /\ template = Map(<< >>)
    /\ Constructed

\* the rest of the plugin is left as it is
Untouched ==
    UNCHANGED <<given, configInput, template, rootsTree, aliased, functions, config,
                stack, status, thrown, console, calls, rootsAtStart, nextFid>>

FormatModules ==
    /\ given.op = "formatModules"
    /\ ~result.set
    /\ result' = [set |-> TRUE, functions |-> formatModules(given.modules)]
    /\ Untouched

DecodeFunctionString ==
    /\ given.op = "decodeFunctionString"
    /\ ~result.set
    /\ result' = [set |-> TRUE,
                  decoded |-> decodeFunctionString(given.text,
                                  [functionPrefix |-> given.prefix])]
    /\ Untouched

DecodeFunctionArgumentString ==
    /\ given.op = "decodeFunctionArgumentString"
    /\ ~result.set
    /\ result' = [set |-> TRUE, decoded |-> decodeFunctionArgumentString(given.source)]
    /\ Untouched

NextPure ==
    \/ FormatModules
    \/ DecodeFunctionString
    \/ DecodeFunctionArgumentString

SpecPure == InitPure /\ [][NextPure]_vars

\* ----------------------------------------------------- vocabulary of the claims
Running == stack # << >>
LastCall == calls[Len(calls)]

\* the activation on top is about to evaluate the value / the key of a pair /
\* to write the result of the pair
AtValue == Running /\ Top.pc = "pair" /\ Len(Top.position) > 0
AtKey == Running /\ Top.pc = "key"
AtWrite == Running /\ Top.pc = "subst"

\* the value stored at the pair, and the pair's value and key as expressions
PairValue == applyPosition(rootsTree, childPosition)
ValueExpression ==
    IF PairValue.t = "str" THEN decodeFunctionString(PairValue.v, config) ELSE None
KeyExpression == decodeFunctionString(Top.keys[Top.i], config)
ValueTokens == decodeFunctionArgumentString(ValueExpression.functionArgumentContent)

\* the calls made so far for the pair the top activation is at
PairCalls(kind) ==
    SelectSeq(calls, LAMBDA c : c.fid = Top.fid /\ c.i = Top.i /\ c.kind = kind)

\* the state a substitution leaves: the rerun's activation was just entered
JustSubstituted(kind) ==
    Running /\ Top.rerun = kind /\ Top.pc = "loop" /\ Top.i = 1

\* the step appends one call, of the given kind, function name and arguments,
\* at the pair the top activation is at
Invokes(kind, functionName, functionArguments) ==
    /\ Len(calls') = Len(calls) + 1
    /\ SubSeq(calls', 1, Len(calls)) = calls
    /\ LET c == calls'[Len(calls')]
       IN /\ c.kind = kind
          /\ c.position = childPosition
          /\ c.name = functionName
          /\ c.fn = functions[functionName]
          /\ c.args = functionArguments

\* ------------------------------------------------------------------------ C1
\* a registered value-expression whose arguments tokenize is called with the
\* tokens, in order
C1_Called ==
    AtValue /\ ValueExpression.ok /\ ValueExpression.functionName \in DOMAIN functions
            /\ ValueTokens.ok
    => Invokes("value", ValueExpression.functionName,
               [j \in 1..Len(ValueTokens.args) |-> Str(ValueTokens.args[j])])

\* C1 as stated: value-call. Every string value below a root that decodes as
\* an expression of a registered function with well-formed arguments has the
\* function called with exactly the tokens, and the value at that position is
\* replaced by what the function returned.
C1_ValueCallAlwaysReplaces ==
    [][/\ C1_Called
       /\ AtWrite /\ PairCalls("value") # << >>
          => applyPosition(rootsTree', childPosition) = PairCalls("value")[1].value]_vars

\* C1 amended: ... and, unless the key of the pair decodes as an expression
\* too, the value at that position is replaced by what the function returned.
C1_ValueCall ==
    [][/\ C1_Called
       /\ AtWrite /\ PairCalls("value") # << >> /\ ~KeyExpression.ok
          => applyPosition(rootsTree', childPosition) = PairCalls("value")[1].value]_vars

\* the value `+list("a", "b")` was replaced by what list("a", "b") returned
C1_Witness ==
    /\ JustSubstituted("value")
    /\ LastCall.args = <<Str(<<"a">>), Str(<<"b">>)>>
    /\ LastCall.position = Top.position
    /\ applyPosition(rootsTree, Top.position) = Arr(<<Str(<<"a">>), Str(<<"b">>)>>)
    /\ applyPosition(rootsAtStart, Top.position) = Str(xList)

\* ------------------------------------------------------------------------ C2
\* the whole node that owns a called key-expression is replaced by what the
\* key's function returned
C2_NodeReplaced ==
    AtWrite /\ PairCalls("key") # << >>
    => applyPosition(rootsTree', Top.position) = PairCalls("key")[1].value

\* C2 as stated: key-call. The function of a key-expression is called with a
\* one-element argument list holding the value stored under the key, and the
\* whole mapping is overwritten by what it returned.
C2_KeyCallGetsStoredValue ==
    [][/\ AtKey /\ KeyExpression.ok /\ KeyExpression.functionName \in DOMAIN functions
          => Invokes("key", KeyExpression.functionName, <<PairValue>>)
       /\ C2_NodeReplaced]_vars

\* C2 amended: the function of a key-expression is called with a one-element
\* argument list holding the value stored under the key or, when that value is
\* itself a string that decodes as an expression, what the value's function
\* returned; the whole mapping is overwritten by what the key's function returned.
C2_KeyCall ==
    [][/\ AtKey /\ KeyExpression.ok /\ KeyExpression.functionName \in DOMAIN functions
          => Invokes("key", KeyExpression.functionName,
                     IF PairCalls("value") # << >>
                     THEN <<PairCalls("value")[1].value>> ELSE <<PairValue>>)
       /\ C2_NodeReplaced]_vars

\* a mapping below the root was replaced by what its key's function returned,
\* the function having received the stored value
C2_Witness ==
    /\ JustSubstituted("key")
    /\ Len(Top.position) = 2
    /\ LastCall.kind = "key"
    /\ LastCall.args = <<Str(xPlain)>>
    /\ applyPosition(rootsTree, Top.position) = LastCall.value

\* ------------------------------------------------------------------------ C3
RECURSIVE HoldsExpression(_)
HoldsExpression(node) ==
    IF node.t = "str" THEN decodeFunctionString(node.v, config).ok
    ELSE \E j \in 1..Len(node.v) :
            HoldsExpression(IF node.t = "map" THEN node.v[j].v ELSE node.v[j])

\* C3: chained resolution. After a run that completed, no string value within
\* the processed roots decodes as an expression.
C3_NoExpressionLeft ==
    status = "done" =>
        \A r \in 1..Len(config.roots) :
            ~HoldsExpression(GetProp(rootsTree, config.roots[r]))

C5_FrozenSnapshot ==
    \A n \in 1..Len(calls) : getTemplate(calls[n].ctx) = deepCopy(rootsAtStart)

\* ------------------------------------------------------------------------ C6
AncestryChain(ctx) ==
    LET c == getAncestry(ctx)
        p == ctx.position
    IN /\ Len(c) = Len(p) + 1
       /\ c[1].value = getTemplate(ctx)
       /\ \A j \in 1..Len(p) :
             /\ c[j + 1].key = Str(p[j])
             /\ c[j + 1].value = GetProp(c[j].value, p[j])
             /\ c[j + 1].parent = j
             /\ c[j].child = j + 1
       /\ getAncestryFunction(ctx).value = applyPosition(getTemplate(ctx), p)

\* C6: ancestry chain. The ancestry of the context of every call is a chain
\* from the snapshot to the call site: each node holds the property of its
\* parent's value named by the position, and the last one the value at the
\* call site.
C6_AncestryChain == \A n \in 1..Len(calls) : AncestryChain(calls[n].ctx)

\* ------------------------------------------------------------------------ C7
\* the step the top activation takes next fails: malformed arguments, no
\* such function, or the function throws
Fails ==
    \/ /\ AtValue /\ ValueExpression.ok
       /\ \/ ~ValueTokens.ok
          \/ executeFunction(ValueExpression.functionName,
                 [j \in 1..Len(ValueTokens.args) |-> Str(ValueTokens.args[j])],
                 rootsTree, childPosition, functions).threw
    \/ /\ AtKey /\ KeyExpression.ok
       /\ executeFunction(KeyExpression.functionName,
              IF Top.valCalled THEN <<Top.valFuncReturn>> ELSE <<PairValue>>,
              rootsTree, childPosition, functions).threw

\* C7: abort on failure. The step at which an expression fails ends the run
\* with an error and writes nothing; after it no function is called and
\* neither the tree nor the template changes.
C7_AbortOnFailure ==
    [][/\ Fails => /\ status' = "error" /\ thrown' # Undefined
                   /\ rootsTree' = rootsTree /\ template' = template
       /\ status = "error" => UNCHANGED <<calls, rootsTree, template, thrown>>]_vars

\* a run that failed after a substitution, which is still in the tree
C7_Witness ==
    /\ status = "error"
    /\ Len(calls) >= 2
    /\ ~calls[1].threw
    /\ applyPosition(rootsTree, calls[1].position) = calls[1].value
    /\ rootsTree # rootsAtStart

\* ------------------------------------------------------------------------ C8
NotFoundMessage(functionName) ==
    <<Lit("Template Function Calls Error: "), Lit("function \""), Txt(functionName),
      Lit("\" was not found")>>

\* C8: unregistered function. An expression whose function name has no entry
\* in the registry ends the run with the not-found error naming it, and no
\* function is called.
C8_UnregisteredAborts ==
    [][\/ AtValue /\ ValueExpression.ok /\ ValueTokens.ok
          /\ ValueExpression.functionName \notin DOMAIN functions
       \/ AtKey /\ KeyExpression.ok /\ KeyExpression.functionName \notin DOMAIN functions
       => /\ status' = "error"
          /\ thrown'.message =
                NotFoundMessage(IF AtValue THEN ValueExpression.functionName
                                ELSE KeyExpression.functionName)
          /\ calls' = calls]_vars

\* ------------------------------------------------------------------------ C9
\* s holds, from index i on, a character outside a quoted literal that is
\* neither whitespace nor a comma
RECURSIVE StrayCharacter(_, _, _)
StrayCharacter(s, i, inLiteral) ==
    IF i > Len(s) THEN FALSE
    ELSE IF inLiteral
    THEN IF s[i] = "\\" THEN StrayCharacter(s, i + 2, TRUE)
         ELSE StrayCharacter(s, i + 1, s[i] # "\"")
    ELSE IF s[i] = "\"" THEN StrayCharacter(s, i + 1, TRUE)
    ELSE IF s[i] \in Whitespace \cup {","} THEN StrayCharacter(s, i + 1, FALSE)
    ELSE TRUE

\* C9: malformed arguments. A value-expression with a stray character in its
\* argument source ends the run with the argument error, whose message holds
\* the whole text of the value, and its function is not called.
C9_MalformedAborts ==
    [][AtValue /\ ValueExpression.ok
       /\ StrayCharacter(ValueExpression.functionArgumentContent, 1, FALSE)
       => /\ status' = "error"
          /\ thrown'.message =
                <<Lit("Template Function Calls Error: "), Lit("arguments of "),
                  Txt(PairValue.v), Lit(" were malformed")>>
          /\ calls' = calls]_vars

\* a run ended by the argument error for `+list("a" , b)`, nothing called
C9_Witness ==
    /\ status = "error"
    /\ calls = << >>
    /\ Txt(xMalformed) \in {thrown.message[j] : j \in 1..Len(thrown.message)}
    /\ Lit(" were malformed") \in {thrown.message[j] : j \in 1..Len(thrown.message)}

\* ----------------------------------------------------------------------- C10
\* C10: invocation failure. When a called function throws, the error the run
\* ends with names the function, holds the serialized argument list and
\* carries the error the function threw.
C10_InvocationError ==
    status = "error" /\ calls # << >> /\ LastCall.threw =>
        /\ Txt(LastCall.name) \in {thrown.message[j] : j \in 1..Len(thrown.message)}
        /\ Txt(JSONStringify(LastCall.args))
              \in {thrown.message[j] : j \in 1..Len(thrown.message)}
        /\ thrown.cause = LastCall.original

\* ---------------------------------------------------------------------- C11
\* the shape the settings are required to have
WellShaped(settings) ==
    /\ settings.functionPrefix.t = "str"
    /\ StringArray(settings.modules)
    /\ StringArray(settings.roots)

ValidationErrors ==
    {NewError(<<Lit("Template Function Calls Error: "), Lit(text)>>) : text \in
        {"functionPrefix has to be a string", "modules has to be a string array",
         "roots has to be a string array"}}

\* C11: a run whose effective settings have a functionPrefix that is not a
\* string, or modules or roots that are not an array of strings, fails with
\* a validation error before any node is visited (no activation of
\* inplaceFormatField), any function is invoked or any value is modified.
C11_ConfigValidation ==
    [][status = "idle" /\ ~WellShaped(EffectiveSettings(configInput))
       => /\ status' = "error"
          /\ thrown' \in ValidationErrors
          /\ stack' = << >>
          /\ calls' = << >>
          /\ template' = template]_vars

\* ---------------------------------------------------------------------- C12
ConfiguredRoots == {config.roots[r] : r \in 1..Len(config.roots)}

\* C12: a top-level property of the template that the configured roots do
\* not list is left unchanged by every step of a run, and no function is
\* invoked at a position inside it.
C12_RootScoping ==
    [][\A i \in 1..Len(template.v) :
          template.v[i].k \notin ConfiguredRoots'
          => /\ template'.v[i] = template.v[i]
             /\ \A n \in 1..Len(calls') :
                    calls'[n].position[1] # template.v[i].k]_vars

\* a finished run that invoked functions and left a property outside the
\* roots holding its key and string of the form of a function call
C12_Witness ==
    /\ status = "done"
    /\ calls # << >>
    /\ rOther \notin ConfiguredRoots
    /\ GetProp(template, rOther) = Map(<<Pair(kCopy, Str(xHello))>>)
    /\ HoldsExpression(GetProp(template, rOther))

\* ---------------------------------------------------------------------- C13
\* the qualified names registered for the modules given, with their
\* functions, in module-then-key traversal order
Qualified == TakenFunctions(given.modules)

SharesSegment(i, j) ==
    shortFunctionName(Qualified[i].k) = shortFunctionName(Qualified[j].k)

\* C13: in the registry formatModules returns, every qualified name resolves
\* to its own function, and when several qualified names share their last
\* dot-segment, that segment resolves to the function of the first of them
\* in traversal order.
C13_AliasPrecedence ==
    given.op = "formatModules" /\ result.set =>
        \A i \in 1..Len(Qualified) :
            /\ LookupFunction(result.functions, Qualified[i].k) = Qualified[i].v
            /\ (/\ \E j \in 1..Len(Qualified) : j # i /\ SharesSegment(i, j)
                /\ \A j \in 1..(i - 1) : ~SharesSegment(i, j))
               => LookupFunction(result.functions, shortFunctionName(Qualified[i].k))
                  = Qualified[i].v

\* ---------------------------------------------------------------------- C14
\* the text after the prefix, when `text` starts with it
Remainder(text, prefix) == SubSeq(text, Len(prefix) + 1, Len(text))

\* `text` starts with the literal prefix and the remainder is name "(" args
\* ")" with ")" its last character and no "(" in name; p is the place of the
\* first "(" of the remainder
HasCallForm(text, prefix, p) ==
    /\ Len(text) >= Len(prefix)
    /\ SubSeq(text, 1, Len(prefix)) = prefix
    /\ LET rest == Remainder(text, prefix) IN
       /\ p \in 1..(Len(rest) - 1)
       /\ rest[p] = "("
       /\ \A j \in 1..(p - 1) : rest[j] # "("
       /\ rest[Len(rest)] = ")"

\* C14: decodeFunctionString returns an expression exactly when the text has
\* the call form; its functionName is then the text between the prefix and
\* the first "(" and its argument source the text between that "(" and the
\* final ")"; in every other case it returns none.
C14_DecodeGrammar ==
    given.op = "decodeFunctionString" /\ result.set =>
        LET rest == Remainder(given.text, given.prefix) IN
        /\ result.decoded.ok <=>
              \E p \in 1..Len(rest) : HasCallForm(given.text, given.prefix, p)
        /\ \A p \in 1..Len(rest) :
              HasCallForm(given.text, given.prefix, p) /\ result.decoded.ok
              => /\ result.decoded.functionName = SubSeq(rest, 1, p - 1)
                 /\ result.decoded.functionArgumentContent
                    = SubSeq(rest, p + 1, Len(rest) - 1)

\* ---------------------------------------------------------------------- C15
\* C15: a string is trimmed before it is interpreted: when the string without
\* its leading and trailing whitespace decodes as an expression, the string
\* decodes to the same expression.
C15_Trimming ==
    given.op = "decodeFunctionString" /\ result.set =>
        LET trimmed == decodeFunctionString(Trim(given.text),
                                            [functionPrefix |-> given.prefix])
        IN trimmed.ok => result.decoded = trimmed

\* ---------------------------------------------------------------------- C16
\* C16: for an argument content that is empty once trimmed, or is written as
\* comma-separated complete quoted literals with optional whitespace around
\* them, decodeFunctionArgumentString returns the arguments in order, each
\* backslash dropped and the character after it taken as it is.
C16_TokenizerResult ==
    given.op = "decodeFunctionArgumentString" /\ given.written /\ result.set =>
        result.decoded = [ok |-> TRUE, args |-> given.arguments]

\* two arguments decoded, one of them a backslash and a quote, both written
\* after backslashes
C16_Witness ==
    /\ given.op = "decodeFunctionArgumentString" /\ given.written /\ result.set
    /\ Len(given.arguments) = 2
    /\ given.arguments[2] = <<"\\", "\"">>
    /\ result.decoded.ok
    /\ result.decoded.args = given.arguments

\* ---------------------------------------------------------------------- C17
\* the end of s is reached inside a quoted literal (after a backslash
\* included), reading from index i
RECURSIVE EndsInsideLiteral(_, _, _)
EndsInsideLiteral(s, i, inLiteral) ==
    IF i > Len(s) THEN inLiteral
    ELSE IF inLiteral
    THEN IF s[i] = "\\" THEN EndsInsideLiteral(s, i + 2, TRUE)
         ELSE EndsInsideLiteral(s, i + 1, s[i] # "\"")
    ELSE EndsInsideLiteral(s, i + 1, s[i] = "\"")

\* C17: when the end of a non-empty trimmed argument content is reached
\* inside an unterminated literal or directly after a comma, the content is
\* reported malformed: no argument list is returned.
C17_TokenizerEnd ==
    given.op = "decodeFunctionArgumentString" /\ result.set =>
        LET s == Trim(given.source) IN
        s # << >> /\ (EndsInsideLiteral(s, 1, FALSE) \/ s[Len(s)] = ",")
        => ~result.decoded.ok

\* ---------------------------------------------------------------------- C18
\* C18: when a key of the mapping that is the value of a configured root
\* decodes and its function returned, the replacement of the whole mapping is
\* written to the template: the template's root property holds the returned
\* value.
C18_RootKeyCall ==
    [][/\ AtWrite /\ Top.info.has /\ Top.info.isKeyFunction
       /\ Len(Top.position) = 1
       => GetProp(template', Top.position[1]) = Top.info.returnValue]_vars

\* ---------------------------------------------------------------------- C19
\* the value stored under the key as call n was made (the context of a call
\* holds a copy of the tree taken at the call)
StoredAt(n) == applyPosition(calls[n].ctx.template, calls[n].position)

SamePair(m, n) ==
    /\ calls[m].fid = calls[n].fid
    /\ calls[m].i = calls[n].i
    /\ calls[m].position = calls[n].position

\* C19: for every call of a key's function: when the pair's value is a
\* string that decodes too, the value's function was called for the pair just
\* before, exactly once, and the key's function is given its return value as
\* its one argument; otherwise the key's function is given the value stored
\* under the key and no value call was made for the pair.
C19_Duality ==
    \A n \in 1..Len(calls) :
        calls[n].kind = "key" =>
            LET valueCalls == {m \in 1..Len(calls) :
                                 calls[m].kind = "value" /\ SamePair(m, n)}
            IN IF StoredAt(n).t = "str"
                  /\ decodeFunctionString(StoredAt(n).v, config).ok
               THEN /\ valueCalls = {n - 1}
                    /\ ~calls[n - 1].threw
                    /\ calls[n].args = <<calls[n - 1].value>>
               ELSE /\ valueCalls = {}
                    /\ calls[n].args = <<StoredAt(n)>>

\* a finished run in which a key's function was given what the value's
\* function returned, and one in which it was given the stored value
C19_Witness ==
    /\ status = "done"
    /\ \E n \in 2..Len(calls) :
          /\ calls[n].kind = "key" /\ calls[n - 1].kind = "value"
          /\ SamePair(n - 1, n)
          /\ calls[n].args = <<calls[n - 1].value>>
          /\ calls[n].args # <<StoredAt(n)>>

\* a key's function given the value stored under the key, a mapping
C19_WitnessStored ==
    /\ status = "done"
    /\ \E n \in 1..Len(calls) :
          /\ calls[n].kind = "key"
          /\ StoredAt(n).t = "map"
          /\ calls[n].args = <<StoredAt(n)>>

\* ---------------------------------------------------------------------- C20
\* node holds a string or a key that decodes as an expression
RECURSIVE HoldsCall(_)
HoldsCall(node) ==
    IF node.t = "str" THEN decodeFunctionString(node.v, config).ok
    ELSE IF node.t = "map"
    THEN \E j \in 1..Len(node.v) :
            decodeFunctionString(node.v[j].k, config).ok \/ HoldsCall(node.v[j].v)
    ELSE IF node.t = "seq" THEN \E j \in 1..Len(node.v) : HoldsCall(node.v[j])
    ELSE FALSE

\* C20: as a function is called for a pair whose value is a mapping or a
\* sequence, every expression inside that value has been replaced: the value
\* holds none; and the calls made by one activation follow the order of the
\* keys of its mapping.
C20_PostOrder ==
    \A n \in 1..Len(calls) :
        /\ isObject(StoredAt(n)) => ~HoldsCall(StoredAt(n))
        /\ \A m \in 1..(n - 1) :
              calls[m].fid = calls[n].fid => calls[m].i <= calls[n].i

\* ---------------------------------------------------------------------- C21
\* the strings and keys of a value that decode as expressions
RECURSIVE Expressions(_)
Expressions(node) ==
    LET RECURSIVE Sum(_, _)
        Sum(f, j) == IF j = 0 THEN 0 ELSE f[j] + Sum(f, j - 1)
    IN IF node.t = "str"
       THEN IF decodeFunctionString(node.v, config).ok THEN 1 ELSE 0
       ELSE IF node.t = "map"
       THEN Sum([j \in 1..Len(node.v) |->
                   (IF decodeFunctionString(node.v[j].k, config).ok THEN 1 ELSE 0)
                   + Expressions(node.v[j].v)], Len(node.v))
       ELSE IF node.t = "seq"
       THEN Sum([j \in 1..Len(node.v) |-> Expressions(node.v[j])], Len(node.v))
       ELSE 0

\* no function has returned a value that is or holds an expression
CleanReturns ==
    \A n \in 1..Len(calls) : ~calls[n].threw => ~HoldsCall(calls[n].value)

Finished == status \in {"done", "error"}

IsPrefix(p, q) == Len(p) <= Len(q) /\ SubSeq(q, 1, Len(p)) = p

\* a rerun is entered: the activation on top of the call stack is new and was
\* called after a substitution
RerunEntered ==
    /\ Len(stack') = Len(stack) + 1
    /\ stack'[Len(stack')].rerun # "none"

\* C21: termination. Every run that was started ends, with success or with
\* an error; as long
\* as no function has returned a value that is or holds an expression, no
\* more calls were made than the tree held expressions at the start. The
\* rerun after a substitution is given the position whose value was just
\* replaced by the returned value, the tree is unchanged outside that
\* position, and every activation works at or below the position of the
\* activation that called it.
C21_Termination ==
    /\ [](status = "running" => <>Finished)
    /\ [](CleanReturns /\ rootsAtStart # Undefined
            => Len(calls) <= Expressions(rootsAtStart))
    /\ [](\A a, b \in 1..Len(stack) :
            a <= b => IsPrefix(stack[a].position, stack[b].position))
    /\ [][RerunEntered =>
            LET at == stack'[Len(stack')].position IN
            /\ applyPosition(rootsTree', at) = calls[Len(calls)].value
            /\ WriteAt(rootsTree', at, applyPosition(rootsTree, at)) = rootsTree]_vars

\* a run of several substitutions, none of which brought an expression, has
\* ended with success
C21_Witness ==
    /\ status = "done"
    /\ Len(calls) >= 2
    /\ CleanReturns
    /\ \E n \in 1..Len(calls) : calls[n].kind = "key"

====
